---- MODULE Spec2Model ----
(***************************************************************************)
(* Model of app.py: the three caller paths that build an analysis payload  *)
(* (default sample images, uploaded files, OCR files) and the bounded      *)
(* retry loop of analyze_resumes that POSTs it to an endpoint.             *)
(*                                                                         *)
(* One call of analyze_resumes is followed through `trace`, the ordered    *)
(* log of everything the call does: UI notices, the network call           *)
(* ("post"), what the network gave back ("recv" / "raise") and every       *)
(* time.sleep ("sleep").                                                   *)
(***************************************************************************)
EXTENDS Integers, Sequences, FiniteSets, TLC

\* ------------------------------------------------------------------ bounds
MaxFiles == 2            \* files in images/, in OCR/ or in the uploader

\* ------------------------------------------------------- program constants
max_retries == 3
retry_delay == 5
connect_timeout == 60
read_timeout == 300

None == "None"
NoTimeout == <<>>
NoPayload == [none |-> TRUE]
NoCaller == [tab |-> "none", files |-> 0, loaded |-> 0, clicked |-> FALSE]

supported_formats == <<"jpg", "jpeg", "png", "webp", "heic">>
Endpoint1 == "https://approach1.onrender.com/analyze"
Endpoint2 == "https://approach2.onrender.com/analyze"

UserRequirements == {"", "5+ years of Python"}

\* ------------------------------------------------------------ environment
\* HTTP status codes the endpoint may answer with.
Statuses == {200, 500}

\* Raw response bodies (response.text) the endpoint may answer with.
Texts == { "{'analysis': ['rec']}",
           "{'error': 'bad payload'}",
           "{}",
           "[]",
           "<html>502 Bad Gateway</html>" }

\* Exceptions session.post itself may raise.
TimeoutExc == "Timeout"
TransportExc == "ConnectionError"
OtherExc == "TypeError"

\* The class response.json() raises on an undecodable body depends on the
\* installed requests: requests.exceptions.JSONDecodeError (a
\* RequestException) or a plain ValueError subclass.
Builds == {"json_error_is_request_exception", "json_error_is_value_error"}

VARIABLES
    pc,               \* "idle" | "while" | "post" | "blocked" | "done" | "raised" | "returned"
    build,            \* which requests build is installed
    caller,           \* the caller path that ran last and what it loaded
    payload,          \* argument of analyze_resumes
    endpoint,         \* argument of analyze_resumes
    current_try,      \* local of analyze_resumes
    session_timeout,  \* attribute set on the Session object
    call_timeout,     \* timeout the in-flight POST actually runs with
    result,           \* value returned by analyze_resumes
    trace             \* ordered log of the current analyze_resumes call

vars == <<pc, build, caller, payload, endpoint, current_try,
          session_timeout, call_timeout, result, trace>>

\* --------------------------------------------------------------- helpers
Ev(kind, attempt, status, msg) ==
    [ev |-> kind, attempt |-> attempt, status |-> status, msg |-> msg, secs |-> 0]

SleepEv(attempt, secs) ==
    [ev |-> "sleep", attempt |-> attempt, status |-> 0, msg |-> "", secs |-> secs]

\* dict.get(key, default)
Get(d, k, default) == IF k \in DOMAIN d THEN d[k] ELSE default

\* response.json(): what each raw body decodes to.
ParseJson(text) ==
    CASE text = "{'analysis': ['rec']}" ->
            [ok |-> TRUE, kind |-> "object", fields |-> [analysis |-> "['rec']"]]
      [] text = "{'error': 'bad payload'}" ->
            [ok |-> TRUE, kind |-> "object", fields |-> [error |-> "bad payload"]]
      [] text = "{}" ->
            [ok |-> TRUE, kind |-> "object", fields |-> [k \in {} |-> None]]
      [] text = "[]" ->
            [ok |-> TRUE, kind |-> "array", fields |-> [k \in {} |-> None]]
      [] OTHER ->
            [ok |-> FALSE, kind |-> "invalid", fields |-> [k \in {} |-> None]]

get_analysis_prompt(user_requirements) ==
    IF user_requirements # ""
    THEN <<"base_prompt", "Additional Requirements:", user_requirements>>
    ELSE <<"base_prompt">>

ExtOf(i) == supported_formats[((i - 1) % Len(supported_formats)) + 1]

RECURSIVE Collect(_, _, _)
\* the records of files 1..n, in order, skipping the files in `bad`
Collect(n, bad, tag) ==
    IF n = 0 THEN <<>>
    ELSE LET rest == Collect(n - 1, bad, tag)
         IN  IF n \in bad THEN rest
             ELSE Append(rest, IF tag = "ocr"
                               THEN [text |-> <<"ocr", n>>]
                               ELSE [mime_type |-> <<"image", ExtOf(n)>>,
                                     data |-> <<"b64", n>>])

\* ------------------------------------------------- analyze_resumes, pieces
\* line 97: the loop condition
WhileCond_OffByOne(ct) == ct <= max_retries

WhileCond(ct) == ct < max_retries

\* line 102 sets an attribute on the Session; line 106 calls
\* session.post(endpoint, json=payload) with no timeout argument.  requests
\* takes the timeout from the call's argument only, so the attribute has no
\* effect and the call runs with no timeout.
PostTimeoutArg(session_attr) == NoTimeout

\* lines 129-133: report the server's error, delay unless last, count the try
HttpErrorRetry_AlwaysDelay(tr, ct, status, error_msg) ==
    [trace |-> tr \o <<Ev("error", ct + 1, status, error_msg),
                       Ev("warning", ct + 1, 0, ""),
                       SleepEv(ct + 1, retry_delay)>>,
     current_try |-> ct + 1]

HttpErrorRetry(tr, ct, status, error_msg) ==
    LET t1 == Append(tr, Ev("error", ct + 1, status, error_msg))
    IN  [trace |-> IF ct < max_retries - 1
                   THEN t1 \o <<Ev("warning", ct + 1, 0, ""),
                                SleepEv(ct + 1, retry_delay)>>
                   ELSE t1,
         current_try |-> ct + 1]

\* lines 135-140: except requests.exceptions.Timeout
TimeoutRetry_NoDelay(tr, ct) ==
    [trace |-> Append(tr, Ev("timed_out", ct + 1, 0, "")),
     current_try |-> ct + 1]

TimeoutRetry(tr, ct) ==
    LET t1 == Append(tr, Ev("timed_out", ct + 1, 0, ""))
    IN  [trace |-> IF ct < max_retries - 1
                   THEN t1 \o <<Ev("warning", ct + 1, 0, ""),
                                SleepEv(ct + 1, retry_delay)>>
                   ELSE t1,
         current_try |-> ct + 1]

\* lines 142-147: except requests.exceptions.RequestException as e
RequestExceptionRetry_Silent(tr, ct, e) ==
    [trace |-> IF ct < max_retries - 1
               THEN Append(tr, SleepEv(ct + 1, retry_delay))
               ELSE tr,
     current_try |-> ct + 1]

RequestExceptionRetry(tr, ct, e) ==
    LET t1 == Append(tr, Ev("request_failed", ct + 1, 0, e))
    IN  [trace |-> IF ct < max_retries - 1
                   THEN t1 \o <<Ev("warning", ct + 1, 0, ""),
                                SleepEv(ct + 1, retry_delay)>>
                   ELSE t1,
         current_try |-> ct + 1]

\* lines 149-154: except Exception as e
UnexpectedRetry(tr, ct, e) ==
    LET t1 == Append(tr, Ev("unexpected_error", ct + 1, 0, e))
    IN  [trace |-> IF ct < max_retries - 1
                   THEN t1 \o <<Ev("warning", ct + 1, 0, ""),
                                SleepEv(ct + 1, retry_delay)>>
                   ELSE t1,
         current_try |-> ct + 1]

\* Python's class hierarchy for the exceptions of the model.
IsTimeout(exc) == exc = TimeoutExc

IsRequestException(exc, b) ==
    \/ exc \in {TimeoutExc, TransportExc}
    \/ exc = "JSONDecodeError" /\ b = "json_error_is_request_exception"

IsException(exc) ==
    exc \in {TimeoutExc, TransportExc, OtherExc, "JSONDecodeError", "AttributeError", "KeyError"}

\* lines 135, 142, 149: the first except clause that matches, in order
CatchClause_NoCatchAll(exc, b) ==
    IF IsTimeout(exc) THEN "Timeout"
    ELSE IF IsRequestException(exc, b) THEN "RequestException"
    ELSE "propagate"

CatchClause(exc, b) ==
    IF IsTimeout(exc) THEN "Timeout"
    ELSE IF IsRequestException(exc, b) THEN "RequestException"
    ELSE IF IsException(exc) THEN "Exception"
    ELSE "propagate"

\* An exception raised inside the try block at attempt ct + 1.
HandleException(tr, ct, exc, b) ==
    LET t1 == Append(tr, Ev("raise", ct + 1, 0, exc))
        clause == CatchClause(exc, b)
        r == CASE clause = "Timeout" -> TimeoutRetry(t1, ct)
               [] clause = "RequestException" -> RequestExceptionRetry(t1, ct, exc)
               [] clause = "Exception" -> UnexpectedRetry(t1, ct, exc)
               [] OTHER -> [trace |-> t1, current_try |-> ct]
    IN  [trace |-> r.trace, current_try |-> r.current_try,
         pc |-> IF clause = "propagate" THEN "raised" ELSE "while",
         result |-> None]

\* line 126: result.get("analysis") on the decoded body
ExtractAnalysis_Subscript(parsed) ==
    IF parsed.kind # "object"
    THEN [raised |-> "AttributeError", value |-> None]
    ELSE IF "analysis" \in DOMAIN parsed.fields
         THEN [raised |-> None, value |-> parsed.fields["analysis"]]
         ELSE [raised |-> "KeyError", value |-> None]

ExtractAnalysis(parsed) ==
    IF parsed.kind # "object"
    THEN [raised |-> "AttributeError", value |-> None]
    ELSE [raised |-> None, value |-> Get(parsed.fields, "analysis", None)]

\* line 128: response.json().get('error', 'Unknown error occurred')
ExtractError(parsed) ==
    IF ~parsed.ok
    THEN [raised |-> "JSONDecodeError", value |-> None]
    ELSE IF parsed.kind # "object"
         THEN [raised |-> "AttributeError", value |-> None]
         ELSE [raised |-> None,
               value |-> Get(parsed.fields, "error", "Unknown error occurred")]

\* lines 107-133: session.post returned a response at attempt ct + 1
HandleResponse(tr, ct, status, text, b) ==
    LET n == ct + 1
        t0 == tr \o <<Ev("recv", n, status, text),
                      Ev("response_details", n, status, "")>>
        parsed == ParseJson(text)
    IN  IF status = 200
        THEN IF ~parsed.ok
             THEN HandleException(t0, ct, "JSONDecodeError", b)
             ELSE LET t2 == t0 \o <<Ev("response_body", n, status, text),
                                    Ev("success", n, status, "")>>
                      ext == ExtractAnalysis(parsed)
                  IN  IF ext.raised # None
                      THEN HandleException(t2, ct, ext.raised, b)
                      ELSE [trace |-> t2, current_try |-> ct,
                            pc |-> "done", result |-> ext.value]
        ELSE LET t1 == Append(t0, Ev("error_response", n, status, text))
                 em == ExtractError(parsed)
             IN  IF em.raised # None
                 THEN HandleException(t1, ct, em.raised, b)
                 ELSE LET r == HttpErrorRetry(t1, ct, status, em.value)
                      IN  [trace |-> r.trace, current_try |-> r.current_try,
                           pc |-> "while", result |-> None]

\* lines 84-95: entry of analyze_resumes
Invoke(p, e, who) ==
    /\ pc' = "while"
    /\ caller' = who
    /\ payload' = p
    /\ endpoint' = e
    /\ current_try' = 0
    /\ trace' = <<Ev("subheader", 0, 0, ""), Ev("request_details", 0, 0, "")>>
    /\ result' = None
    /\ UNCHANGED <<build, session_timeout, call_timeout>>

\* a caller path that ran without calling analyze_resumes
NoDispatch(who) ==
    /\ pc' = "returned"
    /\ caller' = who
    /\ UNCHANGED <<build, payload, endpoint, current_try, session_timeout,
                   call_timeout, result, trace>>

\* line 234: if base64_images:
ShouldDispatchImages_Always(base64_images) == TRUE

ShouldDispatchImages(base64_images) == base64_images # <<>>

\* line 333: if ocr_list:
ShouldDispatchOcr(ocr_list) == ocr_list # <<>>

\* ---------------------------------------------------------------- state
Init ==
    /\ pc = "idle"
    /\ build \in Builds
    /\ caller = NoCaller
    /\ payload = NoPayload
    /\ endpoint = ""
    /\ current_try = 0
    /\ session_timeout = NoTimeout
    /\ call_timeout = NoTimeout
    /\ result = None
    /\ trace = <<>>

\* ---------------------------------------------------------------- callers
\* lines 206-245: tab1, the sample images and the "Analyze Default Resumes" button
TabDefault ==
    /\ pc = "idle"
    /\ \E n \in 0..MaxFiles, clicked \in BOOLEAN, ur \in UserRequirements :
       \E unreadable \in SUBSET (1..n) :
        LET base64_images == Collect(n, unreadable, "image")
            who == [tab |-> "default", files |-> n,
                    loaded |-> Len(base64_images), clicked |-> clicked]
        IN  IF n > 0 /\ clicked /\ ShouldDispatchImages(base64_images)
            THEN Invoke([images |-> base64_images,
                         prompt |-> get_analysis_prompt(ur)], Endpoint1, who)
            ELSE NoDispatch([who EXCEPT !.loaded = IF n > 0 /\ clicked THEN @ ELSE 0])

\* lines 249-277: tab1, the file uploader
TabUpload ==
    /\ pc = "idle"
    /\ \E n \in 0..MaxFiles, ur \in UserRequirements :
        LET images == Collect(n, {}, "image")
            who == [tab |-> "upload", files |-> n,
                    loaded |-> Len(images), clicked |-> FALSE]
        IN  IF n > 0
            THEN Invoke([images |-> images,
                         prompt |-> get_analysis_prompt(ur)], Endpoint1, who)
            ELSE NoDispatch(who)

\* lines 307-341: tab2, the OCR files and the "Analyze OCR Data" button
TabOCR ==
    /\ pc = "idle"
    /\ \E n \in 0..MaxFiles, clicked \in BOOLEAN, ur \in UserRequirements :
       \E unloadable \in SUBSET (1..n) :
        LET ocr_list == Collect(n, unloadable, "ocr")
            who == [tab |-> "ocr", files |-> n,
                    loaded |-> Len(ocr_list), clicked |-> clicked]
        IN  IF clicked /\ ShouldDispatchOcr(ocr_list)
            THEN Invoke([ocr_list |-> ocr_list,
                         prompt |-> get_analysis_prompt(ur)], Endpoint2, who)
            ELSE NoDispatch([who EXCEPT !.loaded = IF clicked THEN @ ELSE 0])

\* ------------------------------------------------------- analyze_resumes
\* lines 97-106: the loop test passes, the request is sent
SendRequest ==
    /\ pc = "while"
    /\ WhileCond(current_try)
    /\ session_timeout' = <<connect_timeout, read_timeout>>
    /\ call_timeout' = PostTimeoutArg(session_timeout')
    /\ trace' = trace \o <<Ev("spinner", current_try + 1, 0, ""),
                           Ev("post", current_try + 1, 0, "")>>
    /\ pc' = "post"
    /\ UNCHANGED <<build, caller, payload, endpoint, current_try, result>>

\* lines 107-133: the endpoint answers
PostResponse ==
    /\ pc = "post"
    /\ \E status \in Statuses, text \in Texts :
        LET r == HandleResponse(trace, current_try, status, text, build)
        IN  /\ trace' = r.trace
            /\ current_try' = r.current_try
            /\ pc' = r.pc
            /\ result' = r.result
    /\ UNCHANGED <<build, caller, payload, endpoint, session_timeout, call_timeout>>

\* session.post raises exc; lines 135-154 handle it
PostRaises(exc) ==
    /\ pc = "post"
    /\ LET r == HandleException(trace, current_try, exc, build)
       IN  /\ trace' = r.trace
           /\ current_try' = r.current_try
           /\ pc' = r.pc
           /\ result' = r.result
    /\ UNCHANGED <<build, caller, payload, endpoint, session_timeout, call_timeout>>

PostTimeout == PostRaises(TimeoutExc)

PostTransportError == PostRaises(TransportExc)

PostUnexpectedError == PostRaises(OtherExc)

\* line 106: a call made with no timeout never returns when the endpoint
\* accepts the connection and never answers
PostBlocks ==
    /\ pc = "post"
    /\ call_timeout = NoTimeout
    /\ pc' = "blocked"
    /\ UNCHANGED <<build, caller, payload, endpoint, current_try,
                   session_timeout, call_timeout, result, trace>>

\* lines 97, 156-157: the loop test fails
Exhausted ==
    /\ pc = "while"
    /\ ~WhileCond(current_try)
    /\ trace' = Append(trace, Ev("all_failed", 0, 0, ""))
    /\ result' = None
    /\ pc' = "done"
    /\ UNCHANGED <<build, caller, payload, endpoint, current_try,
                   session_timeout, call_timeout>>

\* lines 242, 274-277, 341: back in the caller; only the upload path shows
\* the result, and only when it is truthy
Return ==
    /\ pc = "done"
    /\ pc' = "returned"
    /\ trace' = IF caller.tab = "upload" /\ result # None
                THEN Append(trace, Ev("results", 0, 0, result))
                ELSE trace
    /\ UNCHANGED <<build, caller, payload, endpoint, current_try,
                   session_timeout, call_timeout, result>>

\* the script ends (or died of an exception) and the next interaction runs it again
Rerun ==
    /\ pc \in {"returned", "raised"}
    /\ pc' = "idle"
    /\ caller' = NoCaller
    /\ payload' = NoPayload
    /\ endpoint' = ""
    /\ current_try' = 0
    /\ session_timeout' = NoTimeout
    /\ call_timeout' = NoTimeout
    /\ result' = None
    /\ trace' = <<>>
    /\ UNCHANGED build

Next ==
    \/ TabDefault
    \/ TabUpload
    \/ TabOCR
    \/ SendRequest
    \/ PostResponse
    \/ PostTimeout
    \/ PostTransportError
    \/ PostUnexpectedError
    \/ PostBlocks
    \/ Exhausted
    \/ Return
    \/ Rerun

Spec == Init /\ [][Next]_vars

\* ------------------------------------------------------ reading the trace
Idx == DOMAIN trace

Posts == {i \in Idx : trace[i].ev = "post"}

Sleeps == {i \in Idx : trace[i].ev = "sleep"}

PostExceptions == {TimeoutExc, TransportExc, OtherExc}

\* what the network gave back for a call: a response or an exception
IsOutcome(i) ==
    \/ trace[i].ev = "recv"
    \/ trace[i].ev = "raise" /\ trace[i].msg \in PostExceptions

IsDiagnostic(i) ==
    trace[i].ev \in {"response_details", "error", "timed_out",
                     "request_failed", "unexpected_error"}

NoCallOrDelayAfter(i) ==
    \A j \in Idx : j > i => trace[j].ev \notin {"post", "sleep"}

FailureKinds == {"http_error", "timeout", "transport_error", "unexpected_error"}

\* how the attempt whose outcome is at index i ended
KindAt(i) ==
    IF trace[i].ev = "raise"
    THEN CASE trace[i].msg = TimeoutExc -> "timeout"
           [] trace[i].msg = TransportExc -> "transport_error"
           [] OTHER -> "unexpected_error"
    ELSE IF trace[i].status # 200 THEN "http_error"
    ELSE IF ParseJson(trace[i].msg).kind = "object" THEN "success"
    ELSE "unexpected_error"

FailedAttempts ==
    {trace[i].attempt : i \in {j \in Idx : IsOutcome(j) /\ KindAt(j) \in FailureKinds}}

AttemptsOfKind(k) ==
    {trace[i].attempt : i \in {j \in Idx : IsOutcome(j) /\ KindAt(j) = k}}

SleepAttempts == {trace[i].attempt : i \in Sleeps}

LastEv == IF trace = <<>> THEN "" ELSE trace[Len(trace)].ev

\* the next attempt follows attempt a: it is about to be sent or was sent
NextAttemptFollows(i, a) ==
    \/ pc = "while" /\ current_try = a /\ i = Len(trace)
    \/ \E j \in Posts : j > i /\ trace[j].attempt = a + 1

\* ------------------------------------------------------------------ C1
\* C1: one call of analyze_resumes issues at most max_retries (3) POSTs and
\* current_try stays within 0..max_retries in every state of the loop.
C1_AtMostMaxRetriesCalls ==
    /\ Cardinality(Posts) <= max_retries
    /\ current_try \in 0..max_retries

C1_Witness ==
    /\ pc = "done"
    /\ Cardinality(Posts) = max_retries
    /\ current_try = max_retries

\* ------------------------------------------------------------------ C2
\* C2: an attempt that gets status 200 with a body that parses as JSON,
\* whatever JSON value it is, makes analyze_resumes return on that attempt:
\* no later POST or delay, and the result is the body's `analysis` field
\* (None when it has none).
C2_Returns200OnAnyJson ==
    \A i \in Idx :
        (trace[i].ev = "recv" /\ trace[i].status = 200 /\ ParseJson(trace[i].msg).ok)
        => /\ NoCallOrDelayAfter(i)
           /\ pc \in {"done", "returned"}
           /\ result = Get(ParseJson(trace[i].msg).fields, "analysis", None)

C4_FailureKindsAlike ==
    LET failed == FailedAttempts
        delayed == SleepAttempts
    IN  /\ delayed = {a \in failed : a < max_retries}
        /\ Cardinality(Sleeps) = Cardinality(delayed)
        /\ \A s \in Sleeps :
              /\ trace[s].secs = retry_delay
              /\ NextAttemptFollows(s, trace[s].attempt)
        /\ \A i \in Idx :
              (IsOutcome(i) /\ KindAt(i) \in FailureKinds)
              => /\ current_try >= trace[i].attempt
                 /\ trace[i].attempt = max_retries =>
                       /\ pc \in {"while", "done", "returned"}
                       /\ pc \in {"done", "returned"} =>
                             /\ result = None
                             /\ Cardinality(Posts) = max_retries
                             /\ Cardinality(Sleeps) = max_retries - 1

C4_Witness ==
    /\ pc = "done"
    /\ AttemptsOfKind("timeout") = 1..max_retries
    /\ result = None
    /\ Cardinality(Posts) = max_retries

\* ------------------------------------------------------------------ C5
\* C5: no exception leaves analyze_resumes; it ends by returning the
\* analysis it extracted or None, and None by exhaustion only after the
\* "All retry attempts failed" notice.
C5_NoErrorPropagates ==
    /\ pc # "raised"
    /\ pc = "done" =>
        \/ /\ LastEv = "success"
           /\ \E i \in Idx :
                /\ trace[i].ev = "recv"
                /\ trace[i].attempt = trace[Len(trace)].attempt
                /\ result = Get(ParseJson(trace[i].msg).fields, "analysis", None)
        \/ /\ LastEv = "all_failed"
           /\ result = None
           /\ FailedAttempts = 1..max_retries

C5_Witness ==
    /\ pc = "done"
    /\ LastEv = "all_failed"
    /\ AttemptsOfKind("unexpected_error") # {}
    /\ AttemptsOfKind("transport_error") # {}

\* ------------------------------------------------------------------ C6
\* C6: a non-200 answer is reported as an HTTP error ("Error: <message>")
\* whose message is the body's `error` field, the generic message when the
\* JSON body has no such field, and the raw response text when the body is
\* not valid JSON.
C6_HttpErrorMessage ==
    \A i \in Idx :
        (trace[i].ev = "recv" /\ trace[i].status # 200)
        => \E j \in Idx :
              /\ j > i
              /\ trace[j].ev = "error"
              /\ trace[j].attempt = trace[i].attempt
              /\ trace[j].msg =
                    IF ParseJson(trace[i].msg).ok
                    THEN Get(ParseJson(trace[i].msg).fields, "error",
                             "Unknown error occurred")
                    ELSE trace[i].msg

\* ------------------------------------------------------------------ C7
\* C7: on the three caller paths analyze_resumes is called only with a
\* non-empty record list: nothing loaded means no call at all, and a payload
\* that is sent has a prompt and exactly one of images / ocr_list, non-empty.
C7_CallerGuards ==
    /\ caller.loaded = 0 => trace = <<>> /\ pc \in {"idle", "returned"}
    /\ trace # <<>> =>
        /\ "prompt" \in DOMAIN payload
        /\ ("images" \in DOMAIN payload) # ("ocr_list" \in DOMAIN payload)
        /\ DOMAIN payload \subseteq {"images", "ocr_list", "prompt"}
        /\ "images" \in DOMAIN payload =>
              payload.images # <<>> /\ caller.tab \in {"default", "upload"}
        /\ "ocr_list" \in DOMAIN payload =>
              payload.ocr_list # <<>> /\ caller.tab = "ocr"

C7_Witness ==
    /\ pc = "returned"
    /\ caller.tab = "default"
    /\ caller.clicked
    /\ caller.files > 0
    /\ caller.loaded = 0
    /\ trace = <<>>

\* ------------------------------------------------------------------ C8
\* C8: every POST runs with a connect timeout of 60s and a read timeout of
\* 300s, so no attempt blocks forever on an endpoint that never answers.
C8_PostHasTimeouts ==
    /\ pc = "post" => call_timeout = <<connect_timeout, read_timeout>>
    /\ pc # "blocked"

\* ------------------------------------------------------------------ C9
\* C9: a 200 answer whose JSON object has no `analysis` field is a success
\* with an absent result: the call returns None on that attempt, with the
\* success notice, without retry, delay or the final failure notice.
C9_MissingAnalysisIsSuccess ==
    \A i \in Idx :
        ( /\ trace[i].ev = "recv"
          /\ trace[i].status = 200
          /\ ParseJson(trace[i].msg).kind = "object"
          /\ "analysis" \notin DOMAIN ParseJson(trace[i].msg).fields )
        => /\ pc \in {"done", "returned"}
           /\ result = None
           /\ NoCallOrDelayAfter(i)
           /\ \E j \in Idx : j > i /\ trace[j].ev = "success"
                             /\ trace[j].attempt = trace[i].attempt
           /\ \A j \in Idx : trace[j].ev = "all_failed" => FALSE
           /\ \A j \in Idx : j > i => trace[j].ev # "raise"

C9_Witness ==
    /\ pc = "done"
    /\ result = None
    /\ \E i \in Idx : /\ trace[i].ev = "recv"
                      /\ trace[i].status = 200
                      /\ trace[i].msg = "{'error': 'bad payload'}"
                      /\ trace[i].attempt = 2

\* ------------------------------------------------------------------ C10
\* C10: attempts run one after the other in the order 1, 2, 3: a POST is
\* sent only after the previous one has come back, and after each call that
\* came back a diagnostic notice of that attempt is emitted before the next
\* POST.
C10_SequentialAttempts ==
    /\ \A p \in Posts :
          trace[p].attempt = Cardinality({q \in Posts : q <= p})
    /\ \A p \in Posts :
          (p # Len(trace) \/ pc \notin {"post", "blocked"})
          => \E o \in Idx :
                /\ p < o
                /\ IsOutcome(o) /\ trace[o].attempt = trace[p].attempt
                /\ \E d \in Idx :
                      /\ o < d
                      /\ IsDiagnostic(d) /\ trace[d].attempt = trace[p].attempt
                      /\ \A q \in Posts : q > p => q > d
    /\ pc \in {"post", "blocked"} => LastEv = "post"

C10_Witness ==
    /\ pc = "done"
    /\ Cardinality(Posts) = max_retries
    /\ AttemptsOfKind("transport_error") = {2}

====
